---- MODULE Spec2Model ----
(***************************************************************************)
(* State-machine model of src/main.rs: an axum server with one route       *)
(* (GET "/"), a tower-http TraceLayer, an OpenTelemetry batch pipeline     *)
(* installed at startup, and a graceful shutdown driven by the future      *)
(* shutdown_signal (select over ctrl_c and SIGTERM, then a warning and     *)
(* opentelemetry::global::shutdown_tracer_provider()).                     *)
(*                                                                         *)
(* Tasks: the main task (startup, then the server future, which polls the  *)
(* shutdown_signal future before its accept loop), one spawned task per    *)
(* accepted connection, the batch-export background task, and the OS as    *)
(* the source of signals and connections.                                  *)
(***************************************************************************)
EXTENDS Integers, Sequences, FiniteSets, Bags

\* Bounds of the model.
MaxConn == 2
MaxSignals == 2

VARIABLES
    pc,            \* position of main: start, tracer_ready, subscribed, routed, serving, exited, panicked
    unix,          \* cfg(unix) of the build
    tracerState,   \* global tracer provider: none, installed, shutdown
    tracerWrites,  \* number of installations of the global tracer provider
    teardowns,     \* number of calls of shutdown_tracer_provider
    subscriber,    \* the tracing subscriber (registry + opentelemetry layer) is set
    routes,        \* the route table of the Router: set of [path, filter]
    server,        \* unbound, running, draining, stopped
    coord,         \* position of shutdown_signal: unpolled, select, selected, warned, returned
    winner,        \* branch of select! that completed: none, ctrl_c, terminate
    intDelivered,  \* SIGINT deliveries since the listener exists
    termDelivered, \* SIGTERM (polite termination) deliveries since the listener exists
    warnings,      \* number of "signal received" warnings logged
    gracefulStops, \* number of times the server began its graceful stop
    nAccepted,     \* connections accepted so far
    conns,         \* the bag of connection tasks: phase, request, response, span events of each
    buffer,        \* number of closed spans held by the batch span processor
    exported,      \* number of spans handed to the exporter (periodic batch or shutdown flush)
    dropped,       \* number of spans closed with no provider behind the tracer
    exitCode       \* -1 while running, else the exit status

vars == <<pc, unix, tracerState, tracerWrites, teardowns, subscriber, routes, server,
          coord, winner, intDelivered, termDelivered, warnings, gracefulStops,
          nAccepted, conns, buffer, exported, dropped, exitCode>>

\* The requests clients send: method, path and query of the request target.
Requests ==
    { [method |-> "GET",    path |-> "/",        query |-> ""],
      [method |-> "GET",    path |-> "/",        query |-> "x=1"],
      [method |-> "HEAD",   path |-> "/",        query |-> ""],
      [method |-> "POST",   path |-> "/",        query |-> ""],
      [method |-> "GET",    path |-> "/missing", query |-> ""] }

\* A connection task right after accept.
NewConn(req) == [phase |-> "accepted", req |-> req, status |-> 0, body |-> "", spans |-> <<>>]

\* The connection tasks, each once.
Conns == BagToSet(conns)

\* One connection task moves from c to d.
Becomes(c, d) == conns' = (conns (-) SetToBag({c})) (+) SetToBag({d})

\* ---------------------------------------------------------------- routing

\* A router matching on the whole request target, query included.
PathWithQuery(req) == IF req.query = "" THEN req.path ELSE "/?"

\* The path the router matches on: the request target without its query.
PathOf(req) == req.path

\* A route registered for every method (any instead of get).
MethodAllowedAny(filter, method) == TRUE

\* axum::routing::get: the handler answers GET, and HEAD with the body removed.
MethodAllowed(filter, method) ==
    \/ method = filter
    \/ filter = "GET" /\ method = "HEAD"

\* Router::route("/", get(handler)): the one entry of the route table.
RouteTable == { [path |-> "/", filter |-> "GET"] }

\* The router's decision for a request: the handler, 405 (path known, method
\* not allowed) or 404 (path unknown).
Route(req) ==
    IF \E rt \in routes : rt.path = PathOf(req)
    THEN IF \E rt \in routes : rt.path = PathOf(req) /\ MethodAllowed(rt.filter, req.method)
         THEN "handler"
         ELSE "405"
    ELSE "404"

\* The handler's return value.
HandlerBody == "Hello, world!"

\* The name of the span the handler opens.
HandlerSpan == "my_span"

\* The name of the span TraceLayer::new_for_http opens for every request.
RequestSpan == "request"

\* The body on the wire: a HEAD response carries none.
WireBody(req, body) == IF req.method = "HEAD" THEN "" ELSE body

\* ------------------------------------------------------------------ spans

\* A span event as the subscriber sees it.
SpanEvent(name, ev) == [span |-> name, ev |-> ev]

\* A span closes: the opentelemetry layer ends it on the tracer. With the
\* provider alive the span enters the batch processor; otherwise it is lost.
CloseSpan ==
    IF tracerState = "installed"
    THEN /\ buffer' = buffer + 1
         /\ UNCHANGED dropped
    ELSE /\ dropped' = dropped + 1
         /\ UNCHANGED buffer

\* ---------------------------------------------------------------- signals

\* The ctrl_c future of shutdown_signal is ready.
CtrlCReady == intDelivered > 0

\* A terminate future wired up whatever the platform.
TerminateReadyAnyPlatform == termDelivered > 0

\* The terminate future: a SIGTERM listener under cfg(unix), pending forever
\* otherwise.
TerminateReady == unix /\ termDelivered > 0

\* The branches of select! that can complete now.
ReadyBranches ==
    (IF CtrlCReady THEN {"ctrl_c"} ELSE {}) \cup (IF TerminateReady THEN {"terminate"} ELSE {})

\* ------------------------------------------------------------------ server

\* Connections whose task has not finished.
InFlight == { c \in Conns : c.phase \notin {"done", "aborted"} }

\* A drain that does not wait for the connections.
DrainedNoWait == TRUE

\* A drain that ends only if no connection was ever accepted.
DrainedNever == nAccepted = 0

\* The graceful stop has nothing left to wait for.
Drained == InFlight = {}

\* A shutdown_signal that waits for the next signal instead of returning.
AfterTeardownLoop == "select"

\* The position shutdown_signal reaches after shutdown_tracer_provider: its end.
AfterTeardown == "returned"

\* ------------------------------------------------------------------- init

Init ==
    /\ pc = "start"
    /\ unix \in BOOLEAN
    /\ tracerState = "none"
    /\ tracerWrites = 0
    /\ teardowns = 0
    /\ subscriber = FALSE
    /\ routes = {}
    /\ server = "unbound"
    /\ coord = "unpolled"
    /\ winner = "none"
    /\ intDelivered = 0
    /\ termDelivered = 0
    /\ warnings = 0
    /\ gracefulStops = 0
    /\ nAccepted = 0
    /\ conns = EmptyBag
    /\ buffer = 0
    /\ exported = 0
    /\ dropped = 0
    /\ exitCode = -1

\* ------------------------------------------------------------------- main

\* let tracer = init_tracer(): install_batch sets the global tracer provider.
InitTracer ==
    /\ pc = "start"
    /\ pc' = "tracer_ready"
    /\ tracerState' = "installed"
    /\ tracerWrites' = tracerWrites + 1
    /\ UNCHANGED <<unix, teardowns, subscriber, routes, server, coord, winner,
                   intDelivered, termDelivered, warnings, gracefulStops, nAccepted,
                   conns, buffer, exported, dropped, exitCode>>

\* registry().with(opentelemetry).try_init().unwrap()
InitSubscriber ==
    /\ pc = "tracer_ready"
    /\ pc' = "subscribed"
    /\ subscriber' = TRUE
    /\ UNCHANGED <<unix, tracerState, tracerWrites, teardowns, routes, server, coord,
                   winner, intDelivered, termDelivered, warnings, gracefulStops,
                   nAccepted, conns, buffer, exported, dropped, exitCode>>

\* Router::new().route("/", get(handler)).layer(TraceLayer)
BuildRouter ==
    /\ pc = "subscribed"
    /\ pc' = "routed"
    /\ routes' = RouteTable
    /\ UNCHANGED <<unix, tracerState, tracerWrites, teardowns, subscriber, server, coord,
                   winner, intDelivered, termDelivered, warnings, gracefulStops,
                   nAccepted, conns, buffer, exported, dropped, exitCode>>

\* Server::bind(..).serve(..).with_graceful_shutdown(shutdown_signal()).await:
\* the first poll of the server polls shutdown_signal, which registers both
\* signal listeners and suspends in select!.
BindServe ==
    /\ pc = "routed"
    /\ pc' = "serving"
    /\ server' = "running"
    /\ coord' = "select"
    /\ UNCHANGED <<unix, tracerState, tracerWrites, teardowns, subscriber, routes,
                   winner, intDelivered, termDelivered, warnings, gracefulStops,
                   nAccepted, conns, buffer, exported, dropped, exitCode>>

\* bind panics when the address cannot be bound: the process dies at startup.
BindFail ==
    /\ pc = "routed"
    /\ pc' = "panicked"
    /\ exitCode' = 101
    /\ UNCHANGED <<unix, tracerState, tracerWrites, teardowns, subscriber, routes, server,
                   coord, winner, intDelivered, termDelivered, warnings, gracefulStops,
                   nAccepted, conns, buffer, exported, dropped>>

\* What the runtime's shutdown makes of a task: one that has not finished is
\* cancelled where it stands.
Cancelled(c) == IF c.phase = "done" THEN c ELSE [c EXCEPT !.phase = "aborted"]

\* The server future completed: main returns and the runtime is dropped, which
\* cancels every task still alive.
Exit ==
    /\ pc = "serving"
    /\ server = "stopped"
    /\ pc' = "exited"
    /\ exitCode' = 0
    /\ conns' = BagOfAll(Cancelled, conns)
    /\ UNCHANGED <<unix, tracerState, tracerWrites, teardowns, subscriber, routes, server,
                   coord, winner, intDelivered, termDelivered, warnings, gracefulStops,
                   nAccepted, buffer, exported, dropped>>

\* ------------------------------------------------------- shutdown_signal

\* The OS delivers an interrupt; the listener only records that it happened.
DeliverInterrupt ==
    /\ coord # "unpolled"
    /\ pc = "serving"
    /\ intDelivered + termDelivered < MaxSignals
    /\ intDelivered' = intDelivered + 1
    /\ UNCHANGED <<pc, unix, tracerState, tracerWrites, teardowns, subscriber, routes,
                   server, coord, winner, termDelivered, warnings, gracefulStops,
                   nAccepted, conns, buffer, exported, dropped, exitCode>>

\* The OS delivers a polite termination request.
DeliverTerminate ==
    /\ coord # "unpolled"
    /\ pc = "serving"
    /\ intDelivered + termDelivered < MaxSignals
    /\ termDelivered' = termDelivered + 1
    /\ UNCHANGED <<pc, unix, tracerState, tracerWrites, teardowns, subscriber, routes,
                   server, coord, winner, intDelivered, warnings, gracefulStops,
                   nAccepted, conns, buffer, exported, dropped, exitCode>>

\* tokio::select! completes with one of the ready branches (unbiased: either,
\* when both are ready) and drops the other future.
SelectCompletes ==
    /\ coord = "select"
    /\ \E b \in ReadyBranches : winner' = b
    /\ coord' = "selected"
    /\ UNCHANGED <<pc, unix, tracerState, tracerWrites, teardowns, subscriber, routes,
                   server, intDelivered, termDelivered, warnings, gracefulStops,
                   nAccepted, conns, buffer, exported, dropped, exitCode>>

\* tracing::warn!("signal received, starting graceful shutdown")
Warn ==
    /\ coord = "selected"
    /\ coord' = "warned"
    /\ warnings' = warnings + 1
    /\ UNCHANGED <<pc, unix, tracerState, tracerWrites, teardowns, subscriber, routes,
                   server, winner, intDelivered, termDelivered, gracefulStops,
                   nAccepted, conns, buffer, exported, dropped, exitCode>>

\* opentelemetry::global::shutdown_tracer_provider(): the provider is dropped,
\* its batch processor flushes what it holds, and the tracer is left without a
\* provider. shutdown_signal returns.
ShutdownTracerProvider ==
    /\ coord = "warned"
    /\ coord' = AfterTeardown
    /\ tracerState' = "shutdown"
    /\ teardowns' = teardowns + 1
    /\ exported' = exported + buffer
    /\ buffer' = 0
    /\ UNCHANGED <<pc, unix, tracerWrites, subscriber, routes, server, winner,
                   intDelivered, termDelivered, warnings, gracefulStops,
                   nAccepted, conns, dropped, exitCode>>

\* ------------------------------------------------------------------ server

\* with_graceful_shutdown: the signal future returned, so the server stops
\* accepting and starts to drain.
GracefulStop ==
    /\ server = "running"
    /\ coord = "returned"
    /\ server' = "draining"
    /\ gracefulStops' = gracefulStops + 1
    /\ UNCHANGED <<pc, unix, tracerState, tracerWrites, teardowns, subscriber, routes,
                   coord, winner, intDelivered, termDelivered, warnings,
                   nAccepted, conns, buffer, exported, dropped, exitCode>>

\* The drain ends when no connection is left; there is no timeout.
DrainComplete ==
    /\ server = "draining"
    /\ Drained
    /\ server' = "stopped"
    /\ UNCHANGED <<pc, unix, tracerState, tracerWrites, teardowns, subscriber, routes,
                   coord, winner, intDelivered, termDelivered, warnings, gracefulStops,
                   nAccepted, conns, buffer, exported, dropped, exitCode>>

\* The accept loop runs in the server future only while the signal future is
\* pending; each connection gets a task of its own.
Accept ==
    /\ server = "running"
    /\ coord = "select"
    /\ nAccepted < MaxConn
    /\ nAccepted' = nAccepted + 1
    /\ \E req \in Requests : conns' = conns (+) SetToBag({NewConn(req)})
    /\ UNCHANGED <<pc, unix, tracerState, tracerWrites, teardowns, subscriber, routes,
                   server, coord, winner, intDelivered, termDelivered, warnings,
                   gracefulStops, buffer, exported, dropped, exitCode>>

\* ------------------------------------------------------- connection tasks

\* TraceLayer: the request span opens before the router is called.
TraceOpen ==
    /\ pc = "serving"
    /\ \E c \in Conns :
         /\ c.phase = "accepted"
         /\ Becomes(c, [c EXCEPT !.phase = "outer_open",
                                 !.spans = Append(@, SpanEvent(RequestSpan, "open"))])
    /\ UNCHANGED <<pc, unix, tracerState, tracerWrites, teardowns, subscriber, routes,
                   server, coord, winner, intDelivered, termDelivered, warnings,
                   gracefulStops, nAccepted, buffer, exported, dropped, exitCode>>

\* The router dispatches: to the handler, which opens its span and enters it,
\* or to the framework's 404 / 405 response.
Dispatch ==
    /\ pc = "serving"
    /\ \E c \in Conns :
         /\ c.phase = "outer_open"
         /\ LET r == Route(c.req) IN
              Becomes(c, IF r = "handler"
                         THEN [c EXCEPT !.phase = "inner_open",
                                        !.spans = Append(@, SpanEvent(HandlerSpan, "open"))]
                         ELSE [c EXCEPT !.phase = "responded",
                                        !.status = IF r = "405" THEN 405 ELSE 404])
    /\ UNCHANGED <<pc, unix, tracerState, tracerWrites, teardowns, subscriber, routes,
                   server, coord, winner, intDelivered, termDelivered, warnings,
                   gracefulStops, nAccepted, buffer, exported, dropped, exitCode>>

\* A handler that keeps its span alive past its return.
HandlerResultSpanLeft(c) ==
    [c EXCEPT !.phase = "responded",
              !.status = 200,
              !.body = WireBody(c.req, HandlerBody)]

\* The connection after the handler: in_scope returned the literal, the span
\* was dropped (closed), and the framework made a 200 response of the
\* &'static str.
HandlerResult(c) ==
    [c EXCEPT !.phase = "responded",
              !.status = 200,
              !.body = WireBody(c.req, HandlerBody),
              !.spans = Append(@, SpanEvent(HandlerSpan, "close"))]

\* The handler body runs to its end.
HandlerReturn ==
    /\ pc = "serving"
    /\ \E c \in Conns :
         /\ c.phase = "inner_open"
         /\ Becomes(c, HandlerResult(c))
    /\ CloseSpan
    /\ UNCHANGED <<pc, unix, tracerState, tracerWrites, teardowns, subscriber, routes,
                   server, coord, winner, intDelivered, termDelivered, warnings,
                   gracefulStops, nAccepted, exported, exitCode>>

\* The response has been written; TraceLayer's span is dropped and the
\* connection task ends.
TraceClose ==
    /\ pc = "serving"
    /\ \E c \in Conns :
         /\ c.phase = "responded"
         /\ Becomes(c, [c EXCEPT !.phase = "done",
                                 !.spans = Append(@, SpanEvent(RequestSpan, "close"))])
    /\ CloseSpan
    /\ UNCHANGED <<pc, unix, tracerState, tracerWrites, teardowns, subscriber, routes,
                   server, coord, winner, intDelivered, termDelivered, warnings,
                   gracefulStops, nAccepted, exported, exitCode>>

\* ------------------------------------------------------ batch export task

\* install_batch(Tokio): the background task exports what the processor holds.
BatchExport ==
    /\ tracerState = "installed"
    /\ buffer > 0
    /\ exported' = exported + buffer
    /\ buffer' = 0
    /\ UNCHANGED <<pc, unix, tracerState, tracerWrites, teardowns, subscriber, routes,
                   server, coord, winner, intDelivered, termDelivered, warnings,
                   gracefulStops, nAccepted, conns, dropped, exitCode>>

\* -------------------------------------------------------- specification

Next ==
    \/ InitTracer
    \/ InitSubscriber
    \/ BuildRouter
    \/ BindServe
    \/ BindFail
    \/ Exit
    \/ DeliverInterrupt
    \/ DeliverTerminate
    \/ SelectCompletes
    \/ Warn
    \/ ShutdownTracerProvider
    \/ GracefulStop
    \/ DrainComplete
    \/ Accept
    \/ TraceOpen
    \/ Dispatch
    \/ HandlerReturn
    \/ TraceClose
    \/ BatchExport

Spec == Init /\ [][Next]_vars

\* A step of a task the runtime schedules: the coordinator, the server's
\* drain, main's return or a connection task.
TaskStep ==
    \/ SelectCompletes
    \/ Warn
    \/ ShutdownTracerProvider
    \/ GracefulStop
    \/ DrainComplete
    \/ Exit
    \/ TraceOpen
    \/ Dispatch
    \/ HandlerReturn
    \/ TraceClose

\* The scheduling the runtime guarantees: while some task is ready, a task is
\* eventually polled. Signals and new connections are the environment's and
\* carry no fairness.
LiveSpec == Spec /\ WF_vars(TaskStep)

\* ----------------------------------------------------------- properties

\* select! has completed: a termination signal has been observed.
Observed == coord \in {"selected", "warned", "returned"}

\* The coordinator's state in the two-state reading of shutdown_signal.
CoordState ==
    IF coord = "select" THEN "Running"
    ELSE IF Observed THEN "ShuttingDown"
    ELSE "NotStarted"

\* Connections whose response has been decided.
Answered == { c \in Conns : c.phase \in {"responded", "done"} }

\* The span events of a request the handler serves, in order.
NestedSpans ==
    << [span |-> "request", ev |-> "open"],
       [span |-> "my_span", ev |-> "open"],
       [span |-> "my_span", ev |-> "close"],
       [span |-> "request", ev |-> "close"] >>

IsPrefix(s, t) == Len(s) <= Len(t) /\ SubSeq(t, 1, Len(s)) = s

\* C1: the tracer shutdown is invoked only after the server's graceful stop
\* has been invoked and has drained: once shutdown_tracer_provider has run,
\* the server has started its graceful stop, has no connection in flight and
\* has stopped.
C1_TeardownAfterDrain ==
    teardowns > 0 => (gracefulStops > 0 /\ InFlight = {} /\ server = "stopped")

\* C2: every span created before exit is transmitted or flushed by the
\* shutdown flush: no span is closed after the flush and dropped, and nothing
\* is left in the batch processor at exit.
C2_NoSpanLost ==
    /\ dropped = 0
    /\ pc = "exited" => buffer = 0

\* C3: once a termination signal has been observed no connection is accepted,
\* and no connection is aborted by the shutdown: at exit every accepted
\* connection has completed with its response.
C3_NoAcceptAfterSignal ==
    /\ [][Observed => nAccepted' = nAccepted /\ BagCardinality(conns') = BagCardinality(conns)]_vars
    /\ [](\A c \in Conns : c.phase # "aborted")
    /\ [](pc = "exited" => \A c \in Conns : c.phase = "done" /\ c.status # 0)

\* C3 witness: the process has exited, a connection was still closing its
\* spans after the signal had been handled, and every connection completed.
C3_Witness ==
    /\ pc = "exited"
    /\ dropped > 0
    /\ nAccepted = MaxConn
    /\ \A c \in Conns : c.phase = "done"

\* C4: the tracer is installed exactly once, before the first connection is
\* accepted, and no connection task runs during or after the teardown: while
\* a connection is in flight the tracer is installed and not torn down.
C4_TracerLiveWhileHandling ==
    /\ tracerWrites <= 1
    /\ server # "unbound" => tracerWrites = 1
    /\ InFlight # {} => tracerState = "installed"

\* C5: the shutdown sequence runs on the first source to deliver, either
\* source alone suffices, and it runs exactly once whatever the number and
\* order of deliveries; without cfg(unix) the terminate source never fires.
C5_FirstSignalOnce ==
    /\ warnings <= 1 /\ teardowns <= 1 /\ gracefulStops <= 1
    /\ pc = "exited" => warnings = 1 /\ teardowns = 1 /\ gracefulStops = 1
    /\ Observed <=> winner # "none"
    /\ winner = "ctrl_c" => intDelivered > 0
    /\ winner = "terminate" => unix /\ termDelivered > 0
    /\ (coord = "select" /\ (intDelivered > 0 \/ (unix /\ termDelivered > 0)))
          => ENABLED SelectCompletes
    /\ (coord = "select" /\ intDelivered = 0 /\ ~unix) => ~ENABLED SelectCompletes

\* C5 witness: both sources delivered, more than once in total, the terminate
\* branch won, and the process exited after one run of the sequence.
C5_Witness ==
    /\ pc = "exited"
    /\ winner = "terminate"
    /\ intDelivered > 0
    /\ intDelivered + termDelivered = MaxSignals
    /\ warnings = 1 /\ teardowns = 1 /\ gracefulStops = 1

\* C6: once a signal has been observed the process eventually exits with
\* code 0, provided the connection tasks keep running; there is no drain
\* timeout, so the server does not stop while a connection is in flight.
C6_EventuallyExits ==
    /\ Observed ~> (pc = "exited" /\ exitCode = 0)
    /\ [](server = "stopped" => InFlight = {})

\* C6 witness: the process exited with code 0 after draining connections.
C6_Witness ==
    /\ pc = "exited"
    /\ exitCode = 0
    /\ nAccepted > 0
    /\ dropped > 0

\* C7 as stated: every request to another path, and every request to "/"
\* with a method other than GET, is answered 404 or 405.
C7_NonGetIsClientError ==
    \A c \in Answered :
        (c.req.path # "/" \/ c.req.method # "GET") => c.status \in {404, 405}

\* C7 amended: every request to another path, and every request to "/" with
\* a method other than GET and HEAD, is answered 404 or 405 and never 200;
\* HEAD / is answered 200 with an empty body.
C7_NonGetNonHeadIsClientError ==
    \A c \in Answered :
        /\ (c.req.path # "/" \/ c.req.method \notin {"GET", "HEAD"}) => c.status \in {404, 405}
        /\ (c.req.path = "/" /\ c.req.method = "HEAD") => c.status = 200 /\ c.body = ""

\* C7 witness: a POST / answered 405 and a request to another path answered 404.
C7_Witness ==
    /\ \E c \in Answered : c.req.method = "POST" /\ c.req.path = "/" /\ c.status = 405
    /\ \E c \in Answered : c.req.path = "/missing" /\ c.status = 404

\* C8: every GET / is answered 200 with the body "Hello, world!", whatever
\* its query and whatever was handled before: equal requests get equal
\* responses.
C8_GetRootIsHello ==
    /\ \A c \in Answered :
          (c.req.method = "GET" /\ c.req.path = "/")
             => c.status = 200 /\ c.body = "Hello, world!"
    /\ \A c, d \in Answered :
          c.req = d.req => c.status = d.status /\ c.body = d.body

\* C8 witness: a GET / with a query answered with the greeting after another
\* request got a client error, and during the drain.
C8_Witness ==
    /\ server = "draining"
    /\ \E c \in Conns : c.phase = "done" /\ c.status \in {404, 405}
    /\ \E c \in Conns : /\ c.phase = "responded"
                        /\ c.req = [method |-> "GET", path |-> "/", query |-> "x=1"]
                        /\ c.status = 200 /\ c.body = "Hello, world!"

\* C9: a routed GET / produces exactly two spans, the request span and
\* "my_span", the inner opened after the outer opens and closed before the
\* outer closes.
C9_TwoNestedSpans ==
    \A c \in Conns :
        (c.req.method = "GET" /\ c.req.path = "/") =>
            /\ IsPrefix(c.spans, NestedSpans)
            /\ c.phase \in {"responded", "done"} => Len(c.spans) >= 3
            /\ c.phase = "done" => c.spans = NestedSpans

\* C9 witness: a GET / is complete with its four span events.
C9_Witness ==
    \E c \in Conns :
        /\ c.req.method = "GET" /\ c.req.path = "/"
        /\ c.phase = "done"
        /\ c.spans = NestedSpans

\* C10: ShuttingDown is terminal and the server never accepts again; Running
\* is left only for ShuttingDown and only with a signal delivered; the
\* coordinator is Running from the start of serving until a signal arrives.
C10_ShuttingDownTerminal ==
    /\ [][/\ CoordState = "ShuttingDown" => CoordState' = "ShuttingDown"
          /\ server \in {"draining", "stopped"} => server' # "running"
          /\ (CoordState = "Running" /\ CoordState' # "Running")
                => CoordState' = "ShuttingDown" /\ intDelivered + termDelivered > 0]_vars
    /\ [](server = "running" /\ intDelivered + termDelivered = 0 => CoordState = "Running")
    /\ [](server \in {"draining", "stopped"} => CoordState = "ShuttingDown")

\* C10 witness: the coordinator is in ShuttingDown with the server stopped.
C10_Witness ==
    /\ CoordState = "ShuttingDown"
    /\ server = "stopped"
    /\ teardowns = 1

====
